---------------------------- MODULE Spec2Model ----------------------------
(***************************************************************************)
(* Model of src/context.rs: the Context wrapper around a libudev session.  *)
(*                                                                         *)
(* A Context value ("owner") holds one NonNull handle `udev`.  The library *)
(* keeps one reference count per session; Context::new obtains a session   *)
(* with udev_new, Clone::clone calls udev_ref, Drop::drop calls udev_unref *)
(* and Handle::as_ptr reads the handle.  Context is declared Send and Sync *)
(* (unsafe impl), so values can move to, and be borrowed by, other threads.*)
(*                                                                         *)
(* Two specifications share the state:                                     *)
(*   Spec      every call is one step (sequences of whole operations);     *)
(*   SpecRace  udev_ref / udev_unref are a read step followed by a write   *)
(*             step on the session's reference count, per thread.          *)
(***************************************************************************)
EXTENDS Integers, FiniteSets, Sequences, TLC

\* ------------------------------------------------------------- bounds ---
MaxOwners == 3      \* Context values ever created (by new or clone)
MaxSessions == 2    \* sessions udev_new can hand out
NumThreads == 2     \* threads of the program

Owners == 1..MaxOwners
Sessions == 1..MaxSessions
Threads == 1..NumThreads

\* The null pointer; session handles are the non-null pointers 1..MaxSessions.
NULL == 0
\* "no owner" / "no thread" in records
None == 0

\* The ways a scope holding a Context can end; all of them run Drop::drop.
ExitPaths == {"return", "early_return", "unwind"}

VARIABLES
    state,      \* owner -> "Uninitialized" | "Live" | "Destroyed"
    udev,       \* owner -> the handle field of the Context value
    holder,     \* owner -> thread that currently owns the value
    unrefs,     \* owner -> udev_unref calls issued by the owner's drop
    n_ref,      \* session -> the library's reference count
    alloc,      \* session -> "unallocated" | "allocated" | "freed"
    nfree,      \* session -> number of times the library released it
    nCreate,    \* session -> completed Context::new + clone calls
    nDestroy,   \* session -> completed drop calls
    last,       \* the last call: [op, owner, raw, result]: owner and raw are
                \* the value and the pointer a new, clone or as_ptr returned;
                \* the result of a drop is the exit path that ran it
    pc          \* thread -> call in flight: [op, owner, tmp, path]

ownerVars == <<state, udev, holder, unrefs>>
sessVars == <<n_ref, alloc, nfree, nCreate, nDestroy>>
vars == <<state, udev, holder, unrefs,
          n_ref, alloc, nfree, nCreate, nDestroy, last, pc>>

Idle == [op |-> "idle", owner |-> None, tmp |-> 0, path |-> "none"]

Call(op, o, raw, res) ==
    [op |-> op, owner |-> o, raw |-> raw, result |-> res]

\* ------------------------------------------------------------ helpers ---
Live(o) == state[o] = "Live"

LiveOwners(s) == {o \in Owners : Live(o) /\ udev[o] = s}

\* o was built by Context::new: no earlier value holds its session.
FromNew(o) == state[o] # "Uninitialized" /\ \A p \in Owners : p < o => udev[p] # udev[o]

\* c was built by clone: an earlier value holds its session.
FromClone(c) == state[c] # "Uninitialized" /\ ~FromNew(c)

Used == {o \in Owners : state[o] # "Uninitialized"}

\* Clones whose udev_ref has started but whose value does not exist yet.
InFlightClones == {t \in Threads : pc[t].op = "clone"}

\* The slot the next Context value is built in.
NextOwner == CHOOSE o \in Owners : state[o] = "Uninitialized" /\
                 \A p \in Owners : state[p] = "Uninitialized" => o <= p

HasRoom == Cardinality(Used) + Cardinality(InFlightClones) < MaxOwners

\* `unsafe impl Send for Context {}`: a value may be moved to another thread.
IsSend == TRUE

\* `unsafe impl Sync for Context {}`: &Context may be used from another thread.
IsSync == TRUE

\* Thread t can call a &self method on owner o.
CanBorrow(t, o) == t = holder[o] \/ IsSync

\* A &self call on o is in flight, so o can be neither moved nor dropped.
Borrowed(o) == \E t \in Threads : pc[t].op = "clone" /\ pc[t].owner = o

\* ---------------------------------------------- the library (libudev) ---
\* udev_new(): NULL on allocation failure, else a fresh session.
udev_new_results ==
    {NULL} \cup (IF \E s \in Sessions : alloc[s] = "unallocated"
                 THEN {CHOOSE s \in Sessions : alloc[s] = "unallocated" /\
                          \A r \in Sessions : alloc[r] = "unallocated" => s <= r}
                 ELSE {})

\* Reading the count of a released session reads freed memory: any value.
ReadRef(s) == IF alloc[s] = "freed" THEN 0..MaxOwners ELSE {n_ref[s]}

\* udev_ref(p): store v+1 where v is the count that was read.
udev_ref_store(s, v) ==
    /\ n_ref' = [n_ref EXCEPT ![s] = v + 1]
    /\ UNCHANGED <<alloc, nfree>>

\* udev_ref(p) returns the pointer it was given.
udev_ref_returns(p) == p

\* udev_unref(p): store v-1; release the session when that is not positive.
udev_unref_store(s, v) ==
    /\ n_ref' = [n_ref EXCEPT ![s] = v - 1]
    /\ IF v - 1 <= 0
       THEN /\ alloc' = [alloc EXCEPT ![s] = "freed"]
            /\ nfree' = [nfree EXCEPT ![s] = @ + 1]
       ELSE UNCHANGED <<alloc, nfree>>

\* try_alloc!(e): early-return the allocation error when e is null.
try_alloc_fails(ptr) == ptr = NULL

\* ---------------------------------------------------------------- Init ---
Init ==
    /\ state = [o \in Owners |-> "Uninitialized"]
    /\ udev = [o \in Owners |-> NULL]
    /\ holder = [o \in Owners |-> None]
    /\ unrefs = [o \in Owners |-> 0]
    /\ n_ref = [s \in Sessions |-> 0]
    /\ alloc = [s \in Sessions |-> "unallocated"]
    /\ nfree = [s \in Sessions |-> 0]
    /\ nCreate = [s \in Sessions |-> 0]
    /\ nDestroy = [s \in Sessions |-> 0]
    /\ last = Call("none", None, NULL, "none")
    /\ pc = [t \in Threads |-> Idle]

\* A new Context value in slot o, owned by thread t, holding handle h.
MakeOwner(o, t, h) ==
    /\ state' = [state EXCEPT ![o] = "Live"]
    /\ udev' = [udev EXCEPT ![o] = h]
    /\ holder' = [holder EXCEPT ![o] = t]
    /\ UNCHANGED unrefs

\* Context::new without try_alloc!: whatever udev_new returned is wrapped.
NewUnchecked(t, ptr) ==
    /\ pc[t].op = "idle"
    /\ ptr \in udev_new_results
    /\ HasRoom
    /\ MakeOwner(NextOwner, t, ptr)
    /\ IF ptr = NULL
       THEN UNCHANGED <<n_ref, alloc, nCreate>>
       ELSE /\ n_ref' = [n_ref EXCEPT ![ptr] = 1]
            /\ alloc' = [alloc EXCEPT ![ptr] = "allocated"]
            /\ nCreate' = [nCreate EXCEPT ![ptr] = @ + 1]
    /\ last' = Call("new", NextOwner, ptr, "Ok")
    /\ UNCHANGED <<nfree, nDestroy, pc>>

\* ------------------------------------------------------- Context::new ---
\* Thread t calls Context::new(); udev_new() returns ptr.
New(t, ptr) ==
    /\ pc[t].op = "idle"
    /\ ptr \in udev_new_results
    /\ IF try_alloc_fails(ptr)
       THEN /\ last' = Call("new", None, ptr, "Err")
            /\ UNCHANGED <<ownerVars, sessVars, pc>>
       ELSE /\ HasRoom
            /\ MakeOwner(NextOwner, t, ptr)
            /\ n_ref' = [n_ref EXCEPT ![ptr] = 1]
            /\ alloc' = [alloc EXCEPT ![ptr] = "allocated"]
            /\ nCreate' = [nCreate EXCEPT ![ptr] = @ + 1]
            /\ last' = Call("new", NextOwner, ptr, "Ok")
            /\ UNCHANGED <<nfree, nDestroy, pc>>

\* clone that copies the handle without calling udev_ref.
CloneNoRef(t, o) ==
    /\ pc[t].op = "idle"
    /\ Live(o)
    /\ CanBorrow(t, o)
    /\ HasRoom
    /\ MakeOwner(NextOwner, t, udev[o])
    /\ nCreate' = [nCreate EXCEPT ![udev[o]] = @ + 1]
    /\ last' = Call("clone", NextOwner, udev[o], "Ok")
    /\ UNCHANGED <<n_ref, alloc, nfree, nDestroy, pc>>

\* clone that opens a session of its own with udev_new instead of taking a
\* reference on the session of self.
CloneFresh(t, o) ==
    /\ pc[t].op = "idle"
    /\ Live(o)
    /\ CanBorrow(t, o)
    /\ HasRoom
    /\ \E ptr \in udev_new_results \ {NULL} :
          /\ MakeOwner(NextOwner, t, ptr)
          /\ n_ref' = [n_ref EXCEPT ![ptr] = 1]
          /\ alloc' = [alloc EXCEPT ![ptr] = "allocated"]
          /\ last' = Call("clone", NextOwner, ptr, "Ok")
    /\ nCreate' = [nCreate EXCEPT ![udev[o]] = @ + 1]
    /\ UNCHANGED <<nfree, nDestroy, pc>>

\* ------------------------------------------------------- Clone::clone ---
\* Thread t calls o.clone(): udev_ref on o's handle, wrapped unchecked.
Clone(t, o) ==
    /\ pc[t].op = "idle"
    /\ Live(o)
    /\ CanBorrow(t, o)
    /\ HasRoom
    /\ \E v \in ReadRef(udev[o]) : udev_ref_store(udev[o], v)
    /\ MakeOwner(NextOwner, t, udev_ref_returns(udev[o]))
    /\ nCreate' = [nCreate EXCEPT ![udev[o]] = @ + 1]
    /\ last' = Call("clone", NextOwner, udev_ref_returns(udev[o]), "Ok")
    /\ UNCHANGED <<nDestroy, pc>>

\* --------------------------------------------------------- Drop::drop ---
\* The owner's value is gone: it is Destroyed and no thread holds it; its
\* drop has issued k udev_unref calls.
EndOwner(o, k) ==
    /\ state' = [state EXCEPT ![o] = "Destroyed"]
    /\ holder' = [holder EXCEPT ![o] = None]
    /\ unrefs' = [unrefs EXCEPT ![o] = @ + k]
    /\ UNCHANGED udev

\* drop that calls udev_unref twice.
DropTwice(t, o, path) ==
    /\ pc[t].op = "idle"
    /\ Live(o)
    /\ t = holder[o]
    /\ ~Borrowed(o)
    /\ path \in ExitPaths
    /\ \E v \in ReadRef(udev[o]) : udev_unref_store(udev[o], v - 1)
    /\ EndOwner(o, 2)
    /\ nDestroy' = [nDestroy EXCEPT ![udev[o]] = @ + 1]
    /\ last' = Call("drop", None, NULL, path)
    /\ UNCHANGED <<nCreate, pc>>

\* drop that never calls udev_unref.
DropNoUnref(t, o, path) ==
    /\ pc[t].op = "idle"
    /\ Live(o)
    /\ t = holder[o]
    /\ ~Borrowed(o)
    /\ path \in ExitPaths
    /\ EndOwner(o, 0)
    /\ nDestroy' = [nDestroy EXCEPT ![udev[o]] = @ + 1]
    /\ last' = Call("drop", None, NULL, path)
    /\ UNCHANGED <<n_ref, alloc, nfree, nCreate, pc>>

\* drop that skips udev_unref while the thread is unwinding.
DropSkipOnUnwind(t, o, path) ==
    /\ pc[t].op = "idle"
    /\ Live(o)
    /\ t = holder[o]
    /\ ~Borrowed(o)
    /\ path \in ExitPaths
    /\ IF path = "unwind"
       THEN /\ EndOwner(o, 0)
            /\ UNCHANGED <<n_ref, alloc, nfree>>
       ELSE /\ \E v \in ReadRef(udev[o]) : udev_unref_store(udev[o], v)
            /\ EndOwner(o, 1)
    /\ nDestroy' = [nDestroy EXCEPT ![udev[o]] = @ + 1]
    /\ last' = Call("drop", None, NULL, path)
    /\ UNCHANGED <<nCreate, pc>>

\* a release that calls udev_unref but does not consume the value.
DropKeepsLive(t, o, path) ==
    /\ pc[t].op = "idle"
    /\ Live(o)
    /\ t = holder[o]
    /\ ~Borrowed(o)
    /\ path \in ExitPaths
    /\ \E v \in ReadRef(udev[o]) : udev_unref_store(udev[o], v)
    /\ unrefs' = [unrefs EXCEPT ![o] = @ + 1]
    /\ nDestroy' = [nDestroy EXCEPT ![udev[o]] = @ + 1]
    /\ last' = Call("drop", None, NULL, path)
    /\ UNCHANGED <<state, udev, holder, nCreate, pc>>

\* The session the latest successful udev_new handed out.
LatestSession ==
    CHOOSE s \in Sessions : alloc[s] # "unallocated" /\
        \A r \in Sessions : alloc[r] # "unallocated" => r <= s

\* drop that calls udev_unref on the handle of the latest Context::new (a
\* handle kept in one shared place) instead of on the handle of self.
DropLatestSession(t, o, path) ==
    /\ pc[t].op = "idle"
    /\ Live(o)
    /\ t = holder[o]
    /\ ~Borrowed(o)
    /\ path \in ExitPaths
    /\ \E v \in ReadRef(LatestSession) : udev_unref_store(LatestSession, v)
    /\ EndOwner(o, 1)
    /\ nDestroy' = [nDestroy EXCEPT ![udev[o]] = @ + 1]
    /\ last' = Call("drop", None, NULL, path)
    /\ UNCHANGED <<nCreate, pc>>

\* Thread t's value o goes out of scope by path: one udev_unref.
Drop(t, o, path) ==
    /\ pc[t].op = "idle"
    /\ Live(o)
    /\ t = holder[o]
    /\ ~Borrowed(o)
    /\ path \in ExitPaths
    /\ \E v \in ReadRef(udev[o]) : udev_unref_store(udev[o], v)
    /\ EndOwner(o, 1)
    /\ nDestroy' = [nDestroy EXCEPT ![udev[o]] = @ + 1]
    /\ last' = Call("drop", None, NULL, path)
    /\ UNCHANGED <<nCreate, pc>>

\* ----------------------------------------------------- Handle::as_ptr ---
\* as_ptr that returns the address of the Context value, not its handle.
as_ptr_self(o) == MaxSessions + o

\* The value as_ptr returns for owner o.
as_ptr(o) == udev[o]

\* as_ptr that takes a reference (udev_ref) on the handle it returns.
AsPtrRef(o) ==
    /\ Live(o)
    /\ {t \in Threads : pc[t].op = "idle" /\ CanBorrow(t, o)} # {}
    /\ \E v \in ReadRef(udev[o]) : udev_ref_store(udev[o], v)
    /\ last' = Call("as_ptr", o, udev[o], "Ok")
    /\ UNCHANGED <<ownerVars, nCreate, nDestroy, pc>>

\* A thread that is not inside another call, and can borrow o, calls
\* o.as_ptr().
AsPtr(o) ==
    /\ Live(o)
    /\ {t \in Threads : pc[t].op = "idle" /\ CanBorrow(t, o)} # {}
    /\ last' = Call("as_ptr", o, as_ptr(o), "Ok")
    /\ UNCHANGED <<ownerVars, sessVars, pc>>

\* ------------------------------------------------------ Send (a move) ---
\* The holder of o moves the value to thread t2.
Send(o, t2) ==
    /\ IsSend
    /\ Live(o)
    /\ t2 \in Threads /\ t2 # holder[o]
    /\ pc[holder[o]].op = "idle"
    /\ ~Borrowed(o)
    /\ holder' = [holder EXCEPT ![o] = t2]
    /\ last' = Call("send", None, NULL, "Ok")
    /\ UNCHANGED <<state, udev, unrefs, sessVars, pc>>

\* ----------------------------------------- udev_ref / udev_unref split ---
\* clone, first half: udev_ref reads the count.
CloneRead(t, o) ==
    /\ pc[t].op = "idle"
    /\ Live(o)
    /\ CanBorrow(t, o)
    /\ HasRoom
    /\ \E v \in ReadRef(udev[o]) :
          pc' = [pc EXCEPT ![t] = [op |-> "clone", owner |-> o, tmp |-> v,
                                   path |-> "none"]]
    /\ UNCHANGED <<ownerVars, sessVars, last>>

\* clone, second half: udev_ref stores the count; the new value exists.
CloneWrite(t) ==
    /\ pc[t].op = "clone"
    /\ LET o == pc[t].owner IN
          /\ udev_ref_store(udev[o], pc[t].tmp)
          /\ MakeOwner(NextOwner, t, udev_ref_returns(udev[o]))
          /\ nCreate' = [nCreate EXCEPT ![udev[o]] = @ + 1]
          /\ last' = Call("clone", NextOwner, udev_ref_returns(udev[o]), "Ok")
    /\ pc' = [pc EXCEPT ![t] = Idle]
    /\ UNCHANGED nDestroy

\* drop, first half: the value is gone, udev_unref reads the count.
DropRead(t, o, path) ==
    /\ pc[t].op = "idle"
    /\ Live(o)
    /\ t = holder[o]
    /\ ~Borrowed(o)
    /\ path \in ExitPaths
    /\ EndOwner(o, 1)
    /\ \E v \in ReadRef(udev[o]) :
          pc' = [pc EXCEPT ![t] = [op |-> "drop", owner |-> o, tmp |-> v,
                                   path |-> path]]
    /\ UNCHANGED <<sessVars, last>>

\* drop, second half: udev_unref stores the count and may release.
DropWrite(t) ==
    /\ pc[t].op = "drop"
    /\ LET o == pc[t].owner IN
          /\ udev_unref_store(udev[o], pc[t].tmp)
          /\ nDestroy' = [nDestroy EXCEPT ![udev[o]] = @ + 1]
          /\ last' = Call("drop", None, NULL, pc[t].path)
    /\ pc' = [pc EXCEPT ![t] = Idle]
    /\ UNCHANGED <<ownerVars, nCreate>>

\* ------------------------------------------------------ specifications ---
Next ==
    \/ \E t \in Threads, ptr \in {NULL} \cup Sessions : New(t, ptr)
    \/ \E t \in Threads, o \in Owners : Clone(t, o)
    \/ \E t \in Threads, o \in Owners, path \in ExitPaths : Drop(t, o, path)
    \/ \E o \in Owners : AsPtr(o)
    \/ \E o \in Owners, t2 \in Threads : Send(o, t2)

Spec == Init /\ [][Next]_vars

NextRace ==
    \/ \E t \in Threads, ptr \in {NULL} \cup Sessions : New(t, ptr)
    \/ \E t \in Threads, o \in Owners : CloneRead(t, o)
    \/ \E t \in Threads : CloneWrite(t)
    \/ \E t \in Threads, o \in Owners, path \in ExitPaths : DropRead(t, o, path)
    \/ \E t \in Threads : DropWrite(t)
    \/ \E o \in Owners : AsPtr(o)
    \/ \E o \in Owners, t2 \in Threads : Send(o, t2)

SpecRace == Init /\ [][NextRace]_vars

TypeOK ==
    /\ state \in [Owners -> {"Uninitialized", "Live", "Destroyed"}]
    /\ udev \in [Owners -> {NULL} \cup Sessions]
    /\ holder \in [Owners -> {None} \cup Threads]
    /\ alloc \in [Sessions -> {"unallocated", "allocated", "freed"}]
    /\ pc \in [Threads -> [op : {"idle", "clone", "drop"},
                           owner : {None} \cup Owners, tmp : Int,
                           path : {"none"} \cup ExitPaths]]

\* --------------------------------------------------------- properties ---
Destroyed(o) == state[o] = "Destroyed"

\* C1: in every state reached by whole new / clone / drop calls, the
\* reference count of a session equals the number of live Context values
\* holding that session's handle.
C1_RefcountEqualsLive ==
    \A s \in Sessions : n_ref[s] = Cardinality(LiveOwners(s))

\* Two live values share a session after a third one of it was dropped.
C1_Witness ==
    \E s \in Sessions :
        /\ Cardinality(LiveOwners(s)) >= 2
        /\ \E o \in Owners : Destroyed(o) /\ udev[o] = s

\* C2: a session is never released while a Context value holding its handle
\* is live, so the handle of a live value always refers to an allocated
\* session, whichever of a value and its clone is dropped first.
C2_NoFreeWhileLive ==
    \A o \in Owners : Live(o) => alloc[udev[o]] = "allocated"

\* a (from new) was dropped, its clone b is live and b.as_ptr() was just read.
C2_Witness ==
    \E a, b \in Owners :
        /\ FromNew(a) /\ FromClone(b) /\ udev[b] = udev[a]
        /\ Destroyed(a) /\ Live(b)
        /\ last.op = "as_ptr" /\ last.owner = b /\ last.raw = udev[a]

\* C3: per session, completed drops never exceed completed new + clone
\* calls, and the session has been released exactly once when the two counts
\* are equal and not at all before that.
C3_Conservation ==
    \A s \in Sessions :
        /\ nDestroy[s] <= nCreate[s]
        /\ nfree[s] = IF nCreate[s] > 0 /\ nDestroy[s] = nCreate[s] THEN 1 ELSE 0

\* The last of several values of a session has just been dropped.
C3_Witness ==
    /\ last.op = "drop"
    /\ \E s \in Sessions :
          nCreate[s] >= 2 /\ nDestroy[s] = nCreate[s] /\ nfree[s] = 1

\* C4: no state has two different threads each holding, or operating on, a
\* live Context value of the same session.
C4_OneThreadPerSession ==
    \A a, b \in Owners :
        (Live(a) /\ Live(b) /\ udev[a] = udev[b]) => holder[a] = holder[b]

\* C5: Context is neither Send nor Sync: no step moves a live Context value
\* to another thread, and a value cloned from a session that already has
\* live values is built on the thread holding those values; so every value
\* stays on, and is operated by, the thread that called Context::new.
C5_NotSendNotSync ==
    [][/\ \A o \in Owners :
             (Live(o) /\ state'[o] = "Live") => holder'[o] = holder[o]
       /\ \A c, o \in Owners :
             (state[c] = "Uninitialized" /\ state'[c] = "Live" /\
              Live(o) /\ udev[o] = udev'[c]) => holder'[c] = holder[o]]_vars

\* C6: a Context::new whose udev_new returned null returns the allocation
\* error, creates no Context value and issues no udev_unref and no change of
\* any reference count; one whose udev_new returned a handle returns Ok and
\* creates exactly one live value, holding exactly that handle.
C6_NewMapsNull ==
    [][last'.op = "new" =>
         IF last'.raw = NULL
         THEN /\ last'.result = "Err"
              /\ last'.owner = None
              /\ UNCHANGED <<ownerVars, n_ref, alloc, nfree>>
         ELSE /\ last'.result = "Ok"
              /\ state[last'.owner] = "Uninitialized"
              /\ state'[last'.owner] = "Live"
              /\ udev'[last'.owner] = last'.raw
              /\ \A o \in Owners \ {last'.owner} :
                    state'[o] = state[o] /\ udev'[o] = udev[o]
              /\ unrefs' = unrefs]_vars

\* A failed Context::new while another session has a live value.
C6_Witness ==
    /\ last.op = "new" /\ last.raw = NULL /\ last.result = "Err"
    /\ \E o \in Owners : Live(o)

\* C7: every Context value issues exactly one udev_unref over its life: none
\* while it is live, exactly one once its scope has ended, on every exit
\* path (return, early return, unwinding).
C7_OneUnrefPerOwner ==
    \A o \in Owners : unrefs[o] = IF Destroyed(o) THEN 1 ELSE 0

\* A value was just dropped by unwinding while a clone of it stays live.
C7_Witness ==
    /\ last.op = "drop" /\ last.result = "unwind"
    /\ \E o, c \in Owners :
          /\ Destroyed(o) /\ unrefs[o] = 1
          /\ Live(c) /\ udev[c] = udev[o]

\* C8: every as_ptr call on a Context value returns the handle the value
\* was built with, whatever was cloned or dropped in between.
C8_AsPtrStable ==
    last.op = "as_ptr" =>
        /\ last.raw = udev[last.owner]
        /\ last.raw \in Sessions
        /\ alloc[last.raw] = "allocated"

\* as_ptr on a value from new, read after a clone of it was made and dropped.
C8_Witness ==
    /\ last.op = "as_ptr" /\ FromNew(last.owner)
    /\ \E c \in Owners :
          FromClone(c) /\ udev[c] = udev[last.owner] /\ Destroyed(c)

\* C9: as_ptr changes no reference count, no Context value and no session,
\* and every change of a reference count is made by new, clone or drop.
C9_AsPtrObservational ==
    [][/\ last'.op = "as_ptr" =>
             UNCHANGED <<ownerVars, n_ref, alloc, nfree>>
       /\ n_ref' # n_ref => last'.op \in {"new", "clone", "drop"}]_vars

\* as_ptr was called on a session that two live values share.
C9_Witness ==
    /\ last.op = "as_ptr"
    /\ Cardinality(LiveOwners(udev[last.owner])) >= 2
    /\ n_ref[udev[last.owner]] >= 2

\* C10: no clone or drop of one thread overlaps a clone or drop of another
\* thread on the same session, and once no call is in flight the reference
\* count of every allocated session equals its number of live values.
C10_Linearized ==
    /\ \A t1, t2 \in Threads :
          (t1 # t2 /\ pc[t1].op # "idle" /\ pc[t2].op # "idle")
              => udev[pc[t1].owner] # udev[pc[t2].owner]
    /\ (\A t \in Threads : pc[t].op = "idle") =>
          \A s \in Sessions :
              alloc[s] = "allocated" => n_ref[s] = Cardinality(LiveOwners(s))

\* C11: every owner goes Uninitialized -> Live -> Destroyed and stays
\* Destroyed: a drop (the owner's udev_unref) is applied only to a Live owner
\* and ends it, as_ptr and clone act on a Live owner, and nothing about a
\* Destroyed owner ever changes again.
C11_Lifecycle ==
    [][\A o \in Owners :
          /\ state'[o] # state[o] =>
                \/ state[o] = "Uninitialized" /\ state'[o] = "Live"
                \/ state[o] = "Live" /\ state'[o] = "Destroyed"
          /\ unrefs'[o] # unrefs[o] =>
                state[o] = "Live" /\ state'[o] = "Destroyed"
          /\ (last'.op = "as_ptr" /\ last'.owner = o) => state[o] = "Live"
          /\ (last'.op = "clone" /\ last'.owner = o) =>
                /\ state[o] = "Uninitialized"
                /\ \E p \in Owners : state[p] = "Live" /\ udev[p] = udev'[o]
          /\ state[o] = "Destroyed" =>
                /\ udev'[o] = udev[o] /\ holder'[o] = holder[o]
                /\ unrefs'[o] = unrefs[o]]_vars

\* A value was dropped and, afterwards, as_ptr was called on its live clone.
C11_Witness ==
    /\ last.op = "as_ptr" /\ Live(last.owner)
    /\ \E o \in Owners :
          /\ Destroyed(o) /\ unrefs[o] = 1 /\ holder[o] = None
          /\ udev[o] = udev[last.owner] /\ o < last.owner

\* C12: every Context value that exists holds a non-null handle that a
\* udev_new handed out, the values holding a handle are exactly the ones
\* built by the new and the clones of that session, and the value a clone
\* returns holds the pointer udev_ref returned, which an earlier value (the
\* original of the chain) already holds.
C12_CloneSharesHandle ==
    /\ \A o \in Owners : state[o] # "Uninitialized" =>
          /\ udev[o] # NULL /\ udev[o] \in Sessions
          /\ alloc[udev[o]] # "unallocated"
          /\ nCreate[udev[o]] = Cardinality({p \in Used : udev[p] = udev[o]})
    /\ last.op = "clone" =>
          /\ state[last.owner] = "Live"
          /\ udev[last.owner] = last.raw
          /\ \E p \in Owners : p < last.owner /\ FromNew(p) /\ udev[p] = last.raw

\* The third value of a session was just cloned from a clone: the value
\* built by Context::new had been dropped before.
C12_Witness ==
    /\ last.op = "clone"
    /\ \E a, b \in Owners :
          /\ a < b /\ b < last.owner
          /\ FromNew(a) /\ Destroyed(a) /\ Live(b)
          /\ udev[a] = udev[b] /\ udev[b] = udev[last.owner]

\* Something of session s changes in the step: its reference count, its
\* allocation, its releases or the set of its live values.
SessionChanged(s) ==
    \/ n_ref'[s] # n_ref[s]
    \/ alloc'[s] # alloc[s]
    \/ nfree'[s] # nfree[s]
    \/ {o \in Owners : state'[o] = "Live" /\ udev'[o] = s} # LiveOwners(s)

\* C13: sessions are independent: a step changes the reference count, the
\* live values or the released status of a session only if it builds or
\* drops a value holding that session's handle; clone and as_ptr on a value
\* of one session change no other session, and a drop never releases a
\* session other than the one of the dropped value.
C13_SessionsIndependent ==
    [][\A s \in Sessions :
          /\ SessionChanged(s) =>
                \E o \in Owners : state'[o] # state[o] /\ udev'[o] = s
          /\ (last'.op \in {"clone", "as_ptr"} /\ last'.raw # s) =>
                ~SessionChanged(s)]_vars

\* Every value of one session was dropped and the session released, while
\* another session keeps its live value and its count.
C13_Witness ==
    /\ last.op = "drop"
    /\ \E s1, s2 \in Sessions :
          /\ s1 # s2
          /\ alloc[s1] = "freed" /\ LiveOwners(s1) = {} /\ nDestroy[s1] >= 1
          /\ alloc[s2] = "allocated" /\ LiveOwners(s2) # {} /\ n_ref[s2] >= 1

=============================================================================
